---- MODULE Spec2Model ----
(***************************************************************************)
(* TIN geometry tools: the Scaler (src/src/XML_scale.py, main) and the     *)
(* Geometry Extractor with the Centroid Calculator (src/src/func.py).      *)
(*                                                                         *)
(* Text is modelled character by character: a text is a sequence of        *)
(* one-character strings, and str.split, int(), float(), str() and         *)
(* "{:.Nf}".format are operators on such sequences.  A float is a signed   *)
(* decimal [neg, m, e] standing for (-1)^neg * m / 10^e; arithmetic on it  *)
(* is exact (binary rounding of doubles is not modelled; where a decimal   *)
(* tie is decided by the double's binary expansion the outcome is the      *)
(* variable tieUp).  Centroid arithmetic is exact rational arithmetic.     *)
(***************************************************************************)
EXTENDS Integers, Sequences, FiniteSets, TLC

VARIABLES
    \* ---- Scaler (XML_scale.py main) ----
    input,          \* the document in the file at file_path
    doc,            \* xml_soup, the tree being rewritten in place
    scale_factor,   \* float(sys.argv[2])
    tieUp,          \* how a decimal tie falls once stored as a double
    pc,             \* position of main
    i,              \* position in the find_all result being iterated
    err,            \* the uncaught exception: [kind, at], or NoErr
    output,         \* the content of the file at output_path
    written,        \* output_path has been opened for writing
    run,            \* number of the invocation of main
    \* ---- Extractor and Centroid Calculator (func.py) ----
    xml,            \* the document given to parse_tin_geometry
    xpc,            \* position in parse_tin_geometry / compute_weighted_centroid
    xi,             \* loop position
    points,         \* dict: point id -> coordinates
    faces,          \* list of faces
    total_weighted_centroid,
    total_area,
    result,         \* the value returned by compute_weighted_centroid
    raised          \* the exception raised: [kind, at], or NoErr

scalerVars == <<input, doc, scale_factor, tieUp, pc, i, err, output, written, run>>
geomVars == <<xml, xpc, xi, points, faces, total_weighted_centroid, total_area,
              result, raised>>
vars == <<scalerVars, geomVars>>

NoErr == [kind |-> "none", at |-> 0]

\* What compute_weighted_centroid returned: nothing yet, None, or a 3-vector.
Unset == [kind |-> "unset", v |-> <<>>]
None == [kind |-> "None", v |-> <<>>]
Vector(v) == [kind |-> "vector", v |-> v]

---------------------------------------------------------------------------
(* Characters and Python's text primitives                                 *)

WS == {" ", "\t", "\n"}
Digits == {"0", "1", "2", "3", "4", "5", "6", "7", "8", "9"}

DigitVal(c) ==
    CASE c = "0" -> 0 [] c = "1" -> 1 [] c = "2" -> 2 [] c = "3" -> 3
      [] c = "4" -> 4 [] c = "5" -> 5 [] c = "6" -> 6 [] c = "7" -> 7
      [] c = "8" -> 8 [] c = "9" -> 9

DigitChar(d) ==
    CASE d = 0 -> "0" [] d = 1 -> "1" [] d = 2 -> "2" [] d = 3 -> "3"
      [] d = 4 -> "4" [] d = 5 -> "5" [] d = 6 -> "6" [] d = 7 -> "7"
      [] d = 8 -> "8" [] d = 9 -> "9"

Tail2(s, k) == SubSeq(s, k, Len(s))

\* str.split(" "): cut at every single space; empty pieces are kept.
RECURSIVE SplitSpace(_)
SplitSpace(t) ==
    IF \A k \in 1..Len(t) : t[k] # " "
    THEN <<t>>
    ELSE LET k == CHOOSE j \in 1..Len(t) :
                      t[j] = " " /\ \A h \in 1..(j - 1) : t[h] # " "
         IN  <<SubSeq(t, 1, k - 1)>> \o SplitSpace(Tail2(t, k + 1))

\* str.split(): cut at runs of whitespace; no empty pieces.
RECURSIVE SplitWS(_)
SplitWS(t) ==
    IF t = <<>> THEN <<>>
    ELSE IF t[1] \in WS THEN SplitWS(Tail(t))
    ELSE LET n == IF \E j \in 1..Len(t) : t[j] \in WS
                  THEN (CHOOSE j \in 1..Len(t) :
                           t[j] \in WS /\ \A h \in 1..(j - 1) : t[h] \notin WS) - 1
                  ELSE Len(t)
         IN  <<SubSeq(t, 1, n)>> \o SplitWS(Tail2(t, n + 1))

\* str.strip() as int() and float() apply it to their argument.
RECURSIVE StripLeft(_)
StripLeft(t) == IF t # <<>> /\ t[1] \in WS THEN StripLeft(Tail(t)) ELSE t

RECURSIVE StripRight(_)
StripRight(t) ==
    IF t # <<>> /\ t[Len(t)] \in WS THEN StripRight(SubSeq(t, 1, Len(t) - 1)) ELSE t

Strip(t) == StripLeft(StripRight(t))

HasSign(t) == t # <<>> /\ t[1] \in {"+", "-"}
Unsigned(t) == IF HasSign(t) THEN Tail(t) ELSE t
IsNegTok(t) == t # <<>> /\ t[1] = "-"

RECURSIVE DigitsToNat(_)
DigitsToNat(ds) ==
    IF ds = <<>> THEN 0
    ELSE 10 * DigitsToNat(SubSeq(ds, 1, Len(ds) - 1)) + DigitVal(ds[Len(ds)])

RECURSIVE NatToDigits(_)
NatToDigits(n) ==
    IF n < 10 THEN <<DigitChar(n)>>
    ELSE NatToDigits(n \div 10) \o <<DigitChar(n % 10)>>

\* int(x) succeeds: optional whitespace, optional sign, one or more digits.
IsIntTok(t) ==
    LET u == Unsigned(Strip(t))
    IN  u # <<>> /\ \A k \in 1..Len(u) : u[k] \in Digits

IntVal(t) ==
    LET s == Strip(t)
        n == DigitsToNat(Unsigned(s))
    IN  IF IsNegTok(s) THEN 0 - n ELSE n

\* str(n) of an int.
StrInt(n) == IF n < 0 THEN <<"-">> \o NatToDigits(0 - n) ELSE NatToDigits(n)

\* ' '.join(parts)
RECURSIVE JoinSpaceTrailing(_)
JoinSpaceTrailing(parts) ==
    IF parts = <<>> THEN <<>>
    ELSE parts[1] \o <<" ">> \o JoinSpaceTrailing(Tail(parts))

RECURSIVE JoinSpace(_)
JoinSpace(parts) ==
    IF parts = <<>> THEN <<>>
    ELSE IF Len(parts) = 1 THEN parts[1]
    ELSE parts[1] \o <<" ">> \o JoinSpace(Tail(parts))

MapSeq(Op(_), s) == [k \in 1..Len(s) |-> Op(s[k])]

---------------------------------------------------------------------------
(* Floats: float(x), x * y, str(x) and "{:.Nf}".format(x)                   *)

RECURSIVE Pow10(_)
Pow10(k) == IF k = 0 THEN 1 ELSE 10 * Pow10(k - 1)

Zeros(k) == [j \in 1..k |-> "0"]

PadLeft(ds, width) == Zeros(width - Len(ds)) \o ds

RECURSIVE DropTrailingZeros(_)
DropTrailingZeros(ds) ==
    IF ds # <<>> /\ ds[Len(ds)] = "0"
    THEN DropTrailingZeros(SubSeq(ds, 1, Len(ds) - 1))
    ELSE ds

DotAt(u) == IF \E k \in 1..Len(u) : u[k] = "."
            THEN CHOOSE k \in 1..Len(u) : u[k] = "."
            ELSE Len(u) + 1

IntDigits(u) == SubSeq(u, 1, DotAt(u) - 1)
FracDigits(u) == Tail2(u, DotAt(u) + 1)

\* float(x) succeeds for a decimal literal: optional whitespace, optional
\* sign, digits with at most one point and at least one digit.
IsFloatTok(t) ==
    LET u == Unsigned(Strip(t))
    IN  /\ \A k \in 1..Len(u) : u[k] \in Digits \cup {"."}
        /\ Cardinality({k \in 1..Len(u) : u[k] = "."}) <= 1
        /\ \E k \in 1..Len(u) : u[k] \in Digits

Normalize(v) ==
    LET RECURSIVE N(_, _)
        N(m, e) == IF e > 0 /\ m % 10 = 0 THEN N(m \div 10, e - 1)
                   ELSE [neg |-> v.neg, m |-> m, e |-> e]
    IN  N(v.m, v.e)

FloatVal(t) ==
    LET s  == Strip(t)
        u  == Unsigned(s)
        fr == DropTrailingZeros(FracDigits(u))
    IN  [neg |-> IsNegTok(s), m |-> DigitsToNat(IntDigits(u) \o fr), e |-> Len(fr)]

FMul(a, b) == Normalize([neg |-> a.neg # b.neg, m |-> a.m * b.m, e |-> a.e + b.e])

FSign(v) == IF v.neg THEN <<"-">> ELSE <<>>

\* "{:.<d>f}".format(v): d digits after the point, correctly rounded; up
\* decides a decimal tie.
FormatF(v, d, up) ==
    IF v.e <= d
    THEN FSign(v) \o NatToDigits(v.m \div Pow10(v.e)) \o <<".">>
           \o (IF v.e = 0 THEN <<>> ELSE PadLeft(NatToDigits(v.m % Pow10(v.e)), v.e))
           \o Zeros(d - v.e)
    ELSE LET cut  == Pow10(v.e - d)
             q0   == v.m \div cut
             r    == v.m % cut
             half == 5 * Pow10(v.e - d - 1)
             q    == IF r > half \/ (r = half /\ up) THEN q0 + 1 ELSE q0
         IN  FSign(v) \o NatToDigits(q \div Pow10(d)) \o <<".">>
               \o PadLeft(NatToDigits(q % Pow10(d)), d)

\* str(v) of a float that repr prints in positional notation
\* (v = 0 or 1e-4 <= |v| < 1e16).
StrFloat(v) ==
    FSign(v) \o NatToDigits(v.m \div Pow10(v.e)) \o <<".">>
      \o (IF v.e = 0 THEN <<"0">> ELSE PadLeft(NatToDigits(v.m % Pow10(v.e)), v.e))

---------------------------------------------------------------------------
(* The Scaler's two rewrites (XML_scale.py, lines 20-22 and 28-34)          *)

XYDigits == 12
ZDigits == 4

Ok(text) == [ok |-> TRUE, kind |-> "none", text |-> text]
Fail(kind) == [ok |-> FALSE, kind |-> kind, text |-> <<>>]

IntTokStr(t) == StrInt(IntVal(t))

\* face_list = [int(x) for x in face.split(" ")]; ' '.join(map(str, face_list))
FaceRewrite(t) ==
    LET toks == SplitSpace(t)
    IN  IF \A k \in 1..Len(toks) : IsIntTok(toks[k])
        THEN Ok(JoinSpace(MapSeq(IntTokStr, toks)))
        ELSE Fail("ValueError")

ScaledXY(v, s) == FMul(v, s)

ZCoordScaled(v, s) == FMul(v, s)
ZCoord(v, s) == v

\* point_list = [float(x) for x in point.split(" ")], the three formatted
\* fields, and ' '.join(map(str, point_list)).
PointRewrite(t, s, up) ==
    LET toks == SplitSpace(t)
        vals == MapSeq(FloatVal, toks)
    IN  IF \E k \in 1..Len(toks) : ~IsFloatTok(toks[k]) THEN Fail("ValueError")
        ELSE IF Len(toks) < 3 THEN Fail("IndexError")
        ELSE Ok(JoinSpace(
                 << FormatF(ScaledXY(vals[1], s), XYDigits, up),
                    FormatF(ScaledXY(vals[2], s), XYDigits, up),
                    FormatF(ZCoord(vals[3], s), ZDigits, up) >>
                 \o [k \in 1..(Len(toks) - 3) |-> StrFloat(vals[k + 3])]))

---------------------------------------------------------------------------
(* Documents: a tree is a sequence of elements in document order, each     *)
(* with its tag, its id attribute (NoAttr when absent), its text (<<>>     *)
(* when the element has no child string) and the index of its parent       *)
(* element (0 for the root).                                               *)

MaxElems == 2
MaxRuns == 2

NoAttr == [has |-> FALSE, val |-> <<>>]
Attr(v) == [has |-> TRUE, val |-> v]

\* Element texts the documents are built from.
FEmpty == <<>>
FPlain == <<"1", " ", "2", " ", "3">>
FDoubleSpace == <<"1", " ", " ", "2", " ", "3">>
FTab == <<"1", "\t", "2">>
FSigned == <<"\n", "+", "1", " ", "0", "2", " ", "-", "3", " ", "4", "\n">>
FBadToken == <<"1", " ", "x", " ", "3">>
PEmpty == <<>>
PTie == <<"1", ".", "5", " ", "-", "2", " ", "0", ".", "0", "0", "0", "1", "5">>
PTwo == <<"0", ".", "5", " ", "2">>
PFour == <<"1", " ", "2", " ", "3", " ", "4", ".", "5">>
PDoubleSpace == <<"1", " ", " ", "2", " ", "3">>
PBadToken == <<"1", " ", "x", " ", "3">>
PNegZero == <<"\n", "-", "0", " ", "2", ".", " ", ".", "2", "5", "\n">>
OEmpty == <<>>
OInt == <<"0", "7">>
FTexts == {FEmpty, FPlain, FDoubleSpace, FTab, FSigned, FBadToken}
PTexts == {PEmpty, PTie, PTwo, PFour, PDoubleSpace, PBadToken, PNegZero}
OTexts == {OEmpty, OInt}

Elem(tag, id, text, parent) == [tag |-> tag, id |-> id, text |-> text, parent |-> parent]

ScalerElems ==
    {Elem("F", NoAttr, t, p) : t \in FTexts, p \in 0..(MaxElems - 1)}
      \cup {Elem("P", Attr(<<"1">>), t, p) : t \in PTexts, p \in 0..(MaxElems - 1)}
      \cup {Elem("P", NoAttr, PTie, 0)}
      \cup {Elem("Surface", NoAttr, t, 0) : t \in OTexts}

\* A parent is an earlier Surface element.
WellFormed(d) ==
    \A k \in 1..Len(d) :
        d[k].parent = 0 \/ (d[k].parent < k /\ d[d[k].parent].tag = "Surface")

ScalerDocs ==
    UNION {{d \in [1..n -> ScalerElems] : WellFormed(d)} : n \in 0..MaxElems}

\* float(sys.argv[2]): 2, -1.5 and 0.
ScaleFactors ==
    {[neg |-> FALSE, m |-> 2, e |-> 0], [neg |-> TRUE, m |-> 15, e |-> 1],
     [neg |-> FALSE, m |-> 0, e |-> 0]}

\* xml_soup.find_all(tag): the indices of the elements named tag, in
\* document order.
FindAllAny(d, tag) == [k \in 1..Len(d) |-> k]
FindAll(d, tag) ==
    LET RECURSIVE From(_)
        From(k) == IF k > Len(d) THEN <<>>
                   ELSE IF d[k].tag = tag THEN <<k>> \o From(k + 1)
                   ELSE From(k + 1)
    IN  From(1)

---------------------------------------------------------------------------
(* The Scaler: XML_scale.py, main                                          *)

GeomIdle ==
    /\ xml = <<>> /\ xpc = "idle" /\ xi = 0
    /\ points = <<>> /\ faces = <<>>
    /\ total_weighted_centroid = <<>> /\ total_area = <<>>
    /\ result = Unset /\ raised = NoErr

InitScaler ==
    /\ input \in ScalerDocs
    /\ doc = input
    /\ scale_factor \in ScaleFactors
    /\ tieUp \in BOOLEAN
    /\ pc = "faces" /\ i = 1
    /\ err = NoErr
    /\ output = <<>> /\ written = FALSE
    /\ run = 1
    /\ GeomIdle

\* One iteration of "for faces in xml_soup.find_all('F')": the inner loop
\* runs once for the element's text child, or not at all when it has none.
FaceStep ==
    /\ pc = "faces"
    /\ i <= Len(FindAll(doc, "F"))
    /\ LET k == FindAll(doc, "F")[i]
           r == FaceRewrite(doc[k].text)
       IN  IF doc[k].text = <<>>
           THEN /\ i' = i + 1
                /\ UNCHANGED <<doc, pc, err>>
           ELSE IF r.ok
           THEN /\ doc' = [doc EXCEPT ![k].text = r.text]
                /\ i' = i + 1
                /\ UNCHANGED <<pc, err>>
           ELSE /\ pc' = "error"
                /\ err' = [kind |-> r.kind, at |-> k]
                /\ UNCHANGED <<doc, i>>
    /\ UNCHANGED <<input, scale_factor, tieUp, output, written, run>>
    /\ UNCHANGED geomVars

FacesDone ==
    /\ pc = "faces"
    /\ i > Len(FindAll(doc, "F"))
    /\ pc' = "points" /\ i' = 1
    /\ UNCHANGED <<input, doc, scale_factor, tieUp, err, output, written, run>>
    /\ UNCHANGED geomVars

\* One iteration of "for points in xml_soup.find_all('P')".
PointStep ==
    /\ pc = "points"
    /\ i <= Len(FindAll(doc, "P"))
    /\ LET k == FindAll(doc, "P")[i]
           r == PointRewrite(doc[k].text, scale_factor, tieUp)
       IN  IF doc[k].text = <<>>
           THEN /\ i' = i + 1
                /\ UNCHANGED <<doc, pc, err>>
           ELSE IF r.ok
           THEN /\ doc' = [doc EXCEPT ![k].text = r.text]
                /\ i' = i + 1
                /\ UNCHANGED <<pc, err>>
           ELSE /\ pc' = "error"
                /\ err' = [kind |-> r.kind, at |-> k]
                /\ UNCHANGED <<doc, i>>
    /\ UNCHANGED <<input, scale_factor, tieUp, output, written, run>>
    /\ UNCHANGED geomVars

PointsDone ==
    /\ pc = "points"
    /\ i > Len(FindAll(doc, "P"))
    /\ pc' = "write"
    /\ UNCHANGED <<input, doc, scale_factor, tieUp, i, err, output, written, run>>
    /\ UNCHANGED geomVars

\* with open(output_path, "w") as f: f.write(str(xml_soup)), then the summary.
WriteFile ==
    /\ pc = "write"
    /\ output' = doc
    /\ written' = TRUE
    /\ pc' = "done"
    /\ UNCHANGED <<input, doc, scale_factor, tieUp, i, err, run>>
    /\ UNCHANGED geomVars

\* main invoked again, on the file the previous invocation wrote.
Rerun ==
    /\ pc = "done"
    /\ run < MaxRuns
    /\ input' = output /\ doc' = output
    /\ pc' = "faces" /\ i' = 1
    /\ output' = <<>> /\ written' = FALSE
    /\ run' = run + 1
    /\ UNCHANGED <<scale_factor, tieUp, err>>
    /\ UNCHANGED geomVars

NextScaler == FaceStep \/ FacesDone \/ PointStep \/ PointsDone \/ WriteFile \/ Rerun

SpecScaler == InitScaler /\ [][NextScaler]_vars

---------------------------------------------------------------------------
(* Properties of the Scaler                                                *)

\* How far the current invocation got, read off the state alone.
Phase == IF pc = "error"
         THEN (IF doc[err.at].tag = "F" THEN "faces" ELSE "points")
         ELSE pc

Rank(d, k, tag) == Cardinality({j \in 1..k : d[j].tag = tag})

LoopPos == IF pc = "error" THEN Rank(doc, err.at, doc[err.at].tag) ELSE i

\* Element k is an F (a P) element whose iteration has completed.
FDone(k) ==
    /\ doc[k].tag = "F"
    /\ \/ Phase \in {"points", "write", "done"}
       \/ (Phase = "faces" /\ Rank(doc, k, "F") < LoopPos)

PDone(k) ==
    /\ doc[k].tag = "P"
    /\ \/ Phase \in {"write", "done"}
       \/ (Phase = "points" /\ Rank(doc, k, "P") < LoopPos)

AllInts(toks) == \A k \in 1..Len(toks) : IsIntTok(toks[k])
AllFloats(toks) == \A k \in 1..Len(toks) : IsFloatTok(toks[k])

\* The text holds the point (x, y, z): three float tokens, one space apart.
HoldsPoint(t) == Len(SplitSpace(t)) = 3 /\ AllFloats(SplitSpace(t))

\* tok is [-]digits.digits with exactly d digits after the point and no
\* superfluous leading zero.
FixedPoint(tok, d) ==
    LET u == IF IsNegTok(tok) THEN Tail(tok) ELSE tok
        ip == IntDigits(u)
        fr == FracDigits(u)
    IN  /\ DotAt(u) <= Len(u)
        /\ ip # <<>> /\ \A k \in 1..Len(ip) : ip[k] \in Digits
        /\ (Len(ip) > 1 => ip[1] # "0")
        /\ Len(fr) = d /\ \A k \in 1..Len(fr) : fr[k] \in Digits

\* a is b rounded to d decimals: same sign, at most d decimals, and
\* |a - b| <= 10^-d / 2.
RoundedTo(a, b, d) ==
    LET E == IF b.e > d THEN b.e ELSE d
        A == a.m * Pow10(E - a.e)
        B == b.m * Pow10(E - b.e)
        diff == IF A >= B THEN A - B ELSE B - A
    IN  /\ a.neg = b.neg
        /\ a.e <= d
        /\ 2 * diff <= Pow10(E - d)

\* The real product x * s, written out.
Product(x, s) == Normalize([neg |-> (x.neg /\ ~s.neg) \/ (~x.neg /\ s.neg),
                            m |-> x.m * s.m, e |-> x.e + s.e])

\* C6: once the Scaler has rewritten a P element whose text held the point
\* (x, y, z), the text is exactly three tokens one space apart: x*s and
\* y*s with 12 digits after the point, and z (not z*s) rounded to 4 digits
\* after the point, for every scale factor (positive, negative, zero).
C6_ScaleFormat ==
    \A k \in 1..Len(doc) :
        (PDone(k) /\ HoldsPoint(input[k].text)) =>
            LET in  == MapSeq(FloatVal, SplitSpace(input[k].text))
                out == SplitSpace(doc[k].text)
            IN  /\ Len(out) = 3
                /\ FixedPoint(out[1], 12) /\ FixedPoint(out[2], 12)
                /\ FixedPoint(out[3], 4)
                /\ FloatVal(out[1]) = Product(in[1], scale_factor)
                /\ FloatVal(out[2]) = Product(in[2], scale_factor)
                /\ RoundedTo(FloatVal(out[3]), in[3], 4)

\* A P element holding a point with more than 4 decimals in z has been
\* rewritten under a negative scale factor and the file written.
C6_Witness ==
    /\ pc = "done" /\ run = 1
    /\ scale_factor.neg
    /\ \E k \in 1..Len(doc) :
          /\ PDone(k) /\ HoldsPoint(input[k].text)
          /\ FloatVal(SplitSpace(input[k].text)[3]).e > 4
          /\ doc[k].text # input[k].text

\* C7 (as claimed): an F element whose text splits on whitespace into
\* integer tokens is rewritten, without error, to those integers joined by
\* single spaces.
C7_WhitespaceFaces ==
    \A k \in 1..Len(doc) :
        (input[k].tag = "F" /\ AllInts(SplitWS(input[k].text))) =>
            /\ ~(pc = "error" /\ err.at = k)
            /\ (FDone(k) =>
                  doc[k].text = JoinSpace(MapSeq(IntTokStr, SplitWS(input[k].text))))

SameFrame(a, b) ==
    /\ Len(a) = Len(b)
    /\ \A k \in 1..Len(a) :
          /\ a[k].tag = b[k].tag /\ a[k].id = b[k].id /\ a[k].parent = b[k].parent
          /\ (a[k].tag \notin {"F", "P"} => a[k].text = b[k].text)

\* C8: the tree being rewritten, and the file once written, differ from the
\* input document in nothing but the text of F and P elements.
C8_Frame ==
    /\ SameFrame(input, doc)
    /\ (written => SameFrame(input, output))

\* The file has been written with the text of an F or P element changed,
\* next to an element of another name that has text.
C8_Witness ==
    /\ written
    /\ \E k \in 1..Len(output) : output[k].tag = "Surface" /\ output[k].text # <<>>
    /\ \E k \in 1..Len(output) : output[k].text # input[k].text

\* C9: in an invocation on the file a previous invocation wrote, the face
\* rewrite fails on no F element and leaves every F text as it was.
C9_Idempotent ==
    run > 1 =>
        /\ ~(pc = "error" /\ doc[err.at].tag = "F")
        /\ \A k \in 1..Len(doc) : doc[k].tag = "F" => doc[k].text = input[k].text

\* The face loop of a second invocation has passed an F element of several
\* tokens.
C9_Witness ==
    /\ run > 1 /\ pc = "points"
    /\ \E k \in 1..Len(doc) : doc[k].tag = "F" /\ Len(SplitSpace(doc[k].text)) > 3

BadF(t) == \E k \in 1..Len(SplitWS(t)) : ~IsIntTok(SplitWS(t)[k])
BadP(t) == ~(Len(SplitWS(t)) >= 3 /\ AllFloats(SplitWS(t)))

Malformed(d) ==
    \E k \in 1..Len(d) : \/ (d[k].tag = "F" /\ BadF(d[k].text))
                         \/ (d[k].tag = "P" /\ BadP(d[k].text))

\* C10 (as claimed): a document with an F element holding a non-integer
\* token, or a P element that does not split into at least 3 float tokens,
\* never has its output file written and never ends normally.
C10_MalformedAborts ==
    Malformed(input) => (~written /\ pc # "done")

---------------------------------------------------------------------------
(* Exact arithmetic for the Centroid Calculator: a number is a reduced     *)
(* fraction <<n, d>> with d > 0, a point a triple of numbers.              *)

RECURSIVE GCD(_, _)
GCD(a, b) == IF b = 0 THEN a ELSE GCD(b, a % b)

Abs(n) == IF n < 0 THEN 0 - n ELSE n

R(n, d) ==
    LET s == IF d < 0 THEN 0 - 1 ELSE 1
        g == GCD(Abs(n), Abs(d))
    IN  <<(s * n) \div g, (s * d) \div g>>

RZero == <<0, 1>>
RHalf == <<1, 2>>
RThree == <<3, 1>>
FromInt(n) == <<n, 1>>

RAdd(a, b) == R(a[1] * b[2] + b[1] * a[2], a[2] * b[2])
RSub(a, b) == R(a[1] * b[2] - b[1] * a[2], a[2] * b[2])
RMul(a, b) == R(a[1] * b[1], a[2] * b[2])
RDiv(a, b) == R(a[1] * b[2], a[2] * b[1])
RPos(a) == a[1] > 0

ISqrt(n) == CHOOSE r \in 0..n : r * r <= n /\ n < (r + 1) * (r + 1)
IsSquare(n) == ISqrt(n) * ISqrt(n) = n

\* The square root of a number whose numerator and denominator are squares.
RSqrt(a) == <<ISqrt(a[1]), ISqrt(a[2])>>
HasRSqrt(a) == IsSquare(a[1]) /\ IsSquare(a[2])

\* The value of a parsed float.
ToRat(v) == R(IF v.neg THEN 0 - v.m ELSE v.m, Pow10(v.e))

VZero == <<RZero, RZero, RZero>>
VAdd(u, v) == [k \in 1..3 |-> RAdd(u[k], v[k])]
VSub(u, v) == [k \in 1..3 |-> RSub(u[k], v[k])]
VScale(r, v) == [k \in 1..3 |-> RMul(r, v[k])]
VDiv(v, r) == [k \in 1..3 |-> RDiv(v[k], r)]

\* np.cross and np.linalg.norm
Cross(u, v) ==
    << RSub(RMul(u[2], v[3]), RMul(u[3], v[2])),
       RSub(RMul(u[3], v[1]), RMul(u[1], v[3])),
       RSub(RMul(u[1], v[2]), RMul(u[2], v[1])) >>

NormSq(w) == RAdd(RAdd(RMul(w[1], w[1]), RMul(w[2], w[2])), RMul(w[3], w[3]))
Norm(w) == RSqrt(NormSq(w))

---------------------------------------------------------------------------
(* func.py: compute_triangle_area and compute_weighted_centroid            *)

compute_triangle_area(v1, v2, v3) ==
    RMul(RHalf, Norm(Cross(VSub(v2, v1), VSub(v3, v1))))

\* centroid = (v1 + v2 + v3) / 3.0
FaceCentroidTwo(v1, v2, v3) == VDiv(VAdd(v1, v2), RThree)
FaceCentroid(v1, v2, v3) == VDiv(VAdd(VAdd(v1, v2), v3), RThree)

Origin == VZero

\* v1, v2, v3 = points[face[0]], points[face[1]], points[face[2]]; a
\* KeyError makes the lookup fail.
ResolveDefault(pts, face) ==
    [ok |-> TRUE,
     v  |-> [k \in 1..3 |-> IF face[k] \in DOMAIN pts THEN pts[face[k]] ELSE Origin]]
Resolve(pts, face) ==
    IF \A k \in 1..3 : face[k] \in DOMAIN pts
    THEN [ok |-> TRUE, v |-> [k \in 1..3 |-> pts[face[k]]]]
    ELSE [ok |-> FALSE, v |-> <<>>]

\* return total_weighted_centroid / total_area if total_area > 0 else None
CentroidResultOrigin(twc, ta) == IF RPos(ta) THEN Vector(VDiv(twc, ta)) ELSE Vector(VZero)
CentroidResult(twc, ta) == IF RPos(ta) THEN Vector(VDiv(twc, ta)) ELSE None

ScalerIdle ==
    /\ input = <<>> /\ doc = <<>>
    /\ scale_factor = [neg |-> FALSE, m |-> 1, e |-> 0]
    /\ tieUp = FALSE
    /\ pc = "idle" /\ i = 0 /\ err = NoErr
    /\ output = <<>> /\ written = FALSE /\ run = 0

\* compute_weighted_centroid(points, faces) is called: lines 56-57.
CallCentroid ==
    /\ xpc = "returned"
    /\ total_weighted_centroid' = VZero
    /\ total_area' = RZero
    /\ xi' = 1
    /\ xpc' = "centroid"
    /\ UNCHANGED <<xml, points, faces, result, raised>>
    /\ UNCHANGED scalerVars

\* One iteration of "for face in faces".
CentroidStep ==
    /\ xpc = "centroid"
    /\ xi <= Len(faces)
    /\ LET r == Resolve(points, faces[xi])
           area == compute_triangle_area(r.v[1], r.v[2], r.v[3])
           centroid == FaceCentroid(r.v[1], r.v[2], r.v[3])
       IN  IF r.ok
           THEN /\ total_weighted_centroid' =
                       VAdd(total_weighted_centroid, VScale(area, centroid))
                /\ total_area' = RAdd(total_area, area)
                /\ xi' = xi + 1
                /\ UNCHANGED <<xpc, raised>>
           ELSE /\ xpc' = "raised"
                /\ raised' = [kind |-> "DanglingReference", at |-> xi]
                /\ UNCHANGED <<total_weighted_centroid, total_area, xi>>
    /\ UNCHANGED <<xml, points, faces, result>>
    /\ UNCHANGED scalerVars

CentroidReturn ==
    /\ xpc = "centroid"
    /\ xi > Len(faces)
    /\ result' = CentroidResult(total_weighted_centroid, total_area)
    /\ xpc' = "done"
    /\ UNCHANGED <<xml, xi, points, faces, total_weighted_centroid, total_area, raised>>
    /\ UNCHANGED scalerVars

NextCentroid == CallCentroid \/ CentroidStep \/ CentroidReturn

\* ---- inputs of the Centroid Calculator ----
MaxFaces == 2

P3(x, y, z) == <<FromInt(x), FromInt(y), FromInt(z)>>

CoordPool == {P3(0, 0, 0), P3(1, 0, 0), P3(1, 1, 0), P3(0, 1, 0), P3(2, 0, 0), P3(0, 0, 2)}

\* Point mappings: ids 1 and 2 are absent or anywhere in the pool, id 3 is
\* absent or one of two points, id 4 is absent or the fourth corner of the
\* unit square.
PointMaps ==
    {pts \in UNION {[D -> CoordPool] : D \in SUBSET {1, 2, 3, 4}} :
        /\ 3 \in DOMAIN pts => pts[3] \in {P3(1, 1, 0), P3(2, 0, 0)}
        /\ 4 \in DOMAIN pts => pts[4] = P3(0, 1, 0)}

FacePool == {<<1, 2, 3>>, <<1, 3, 4>>, <<2, 1, 2>>, <<3, 2, 4>>}

FaceLists == UNION {[1..n -> FacePool] : n \in 0..MaxFaces}

\* The area of every face that resolves is a fraction (its square root is
\* exact).
ExactAreas(pts, fs) ==
    \A k \in 1..Len(fs) :
        Resolve(pts, fs[k]).ok =>
            LET v == Resolve(pts, fs[k]).v
            IN  HasRSqrt(NormSq(Cross(VSub(v[2], v[1]), VSub(v[3], v[1]))))

InitCentroid ==
    /\ points \in PointMaps
    /\ faces \in FaceLists
    /\ ExactAreas(points, faces)
    /\ xml = <<>> /\ xpc = "returned" /\ xi = 0
    /\ total_weighted_centroid = <<>> /\ total_area = <<>>
    /\ result = Unset /\ raised = NoErr
    /\ ScalerIdle

SpecCentroid == InitCentroid /\ [][NextCentroid]_vars

---------------------------------------------------------------------------
(* Properties of the Centroid Calculator                                   *)

Dangling(pts, f) == \E k \in 1..3 : f[k] \notin DOMAIN pts

DanglingFaces == {k \in 1..Len(faces) : Dangling(points, faces[k])}

Dot(u, v) == RAdd(RAdd(RMul(u[1], v[1]), RMul(u[2], v[2])), RMul(u[3], v[3]))

\* |u x v|^2 = |u|^2 |v|^2 - (u . v)^2 for the edges u, v of face f.
CrossNormSq(pts, f) ==
    LET u == [k \in 1..3 |-> RSub(pts[f[2]][k], pts[f[1]][k])]
        v == [k \in 1..3 |-> RSub(pts[f[3]][k], pts[f[1]][k])]
    IN  RSub(RMul(Dot(u, u), Dot(v, v)), RMul(Dot(u, v), Dot(u, v)))

\* area_i: half the norm of the cross product of two edge vectors.
AreaOf(pts, f) == RMul(<<1, 2>>, RSqrt(CrossNormSq(pts, f)))

\* centroid_i: the plain average of the three vertices, component k.
AverageOf(pts, f, k) ==
    RDiv(RAdd(RAdd(pts[f[1]][k], pts[f[2]][k]), pts[f[3]][k]), <<3, 1>>)

RECURSIVE SumArea(_, _)
SumArea(pts, fs) ==
    IF fs = <<>> THEN <<0, 1>>
    ELSE RAdd(AreaOf(pts, fs[1]), SumArea(pts, Tail(fs)))

RECURSIVE SumWeighted(_, _, _)
SumWeighted(pts, fs, k) ==
    IF fs = <<>> THEN <<0, 1>>
    ELSE RAdd(RMul(AreaOf(pts, fs[1]), AverageOf(pts, fs[1], k)),
              SumWeighted(pts, Tail(fs), k))

\* sum(area_i * centroid_i) / sum(area_i), component-wise.
WeightedAverage(pts, fs) ==
    [k \in 1..3 |-> RDiv(SumWeighted(pts, fs, k), SumArea(pts, fs))]

UnitSquare == (1 :> P3(0, 0, 0)) @@ (2 :> P3(1, 0, 0)) @@ (3 :> P3(1, 1, 0))
                @@ (4 :> P3(0, 1, 0))

\* C1: when every id of every face is a key and the summed area is
\* positive, the value returned is sum(area_i * centroid_i) / sum(area_i);
\* the unit square split into two right triangles gives (0.5, 0.5, 0.0).
C1_WeightedCentroid ==
    /\ (xpc = "done" /\ DanglingFaces = {} /\ RPos(SumArea(points, faces))) =>
            result = Vector(WeightedAverage(points, faces))
    /\ (xpc = "done" /\ points = UnitSquare /\ faces = << <<1, 2, 3>>, <<1, 3, 4>> >>) =>
            result = Vector(<< <<1, 2>>, <<1, 2>>, <<0, 1>> >>)

\* The centroid of the unit square has been returned.
C1_Witness ==
    /\ xpc = "done" /\ points = UnitSquare /\ faces = << <<1, 2, 3>>, <<1, 3, 4>> >>
    /\ result = Vector(<< <<1, 2>>, <<1, 2>>, <<0, 1>> >>)

\* C3: if any face names an id that is not a key, the call raises
\* DanglingReference for the first such face, wherever it sits and whatever
\* the other faces' areas, and returns nothing: it never gets past that
\* face and never returns.
C3_DanglingRaises ==
    /\ (xpc = "raised" =>
            /\ raised.kind = "DanglingReference"
            /\ raised.at \in DanglingFaces
            /\ \A j \in 1..(raised.at - 1) : j \notin DanglingFaces)
    /\ (DanglingFaces # {} =>
            /\ xpc # "done"
            /\ result = Unset
            /\ (xpc = "centroid" => \A k \in DanglingFaces : xi <= k))

\* DanglingReference has been raised for the second face after a face of
\* positive area was accumulated.
C3_Witness ==
    /\ xpc = "raised" /\ raised.kind = "DanglingReference" /\ raised.at = 2
    /\ RPos(total_area)

Degenerate(pts, f) == CrossNormSq(pts, f) = <<0, 1>>

\* C4: the call returns None exactly when no face is dangling and every
\* face is degenerate (in particular when there is none); otherwise, when
\* it returns, it returns a 3-vector and the total area is positive; before
\* it returns, and when it raises, there is no result.
C4_NoneIffZeroArea ==
    /\ (xpc = "done" =>
            /\ (result = None <=>
                    \A k \in 1..Len(faces) : Degenerate(points, faces[k]))
            /\ (result # None =>
                    /\ result.kind = "vector" /\ Len(result.v) = 3
                    /\ RPos(SumArea(points, faces))))
    /\ (xpc # "done" => result = Unset)
    /\ (result = None => DanglingFaces = {})

\* None has been returned for a face list holding a face whose three
\* vertices are distinct (and collinear).
C4_Witness ==
    /\ xpc = "done" /\ result = None
    /\ \E k \in 1..Len(faces) :
          LET f == faces[k]
          IN  /\ points[f[1]] # points[f[2]] /\ points[f[2]] # points[f[3]]
              /\ points[f[1]] # points[f[3]]

---------------------------------------------------------------------------
(* func.py: parse_tin_geometry                                             *)

\* face_list = [int(x) for x in face.text.split()]; kept when len == 3.
FaceEntryAtLeast3(el) ==
    LET toks == SplitWS(el.text)
    IN  IF \E k \in 1..Len(toks) : ~IsIntTok(toks[k])
        THEN [ok |-> FALSE, keep |-> FALSE, face |-> <<>>]
        ELSE [ok |-> TRUE, keep |-> Len(toks) >= 3, face |-> MapSeq(IntVal, toks)]
FaceEntry(el) ==
    LET toks == SplitWS(el.text)
    IN  IF \E k \in 1..Len(toks) : ~IsIntTok(toks[k])
        THEN [ok |-> FALSE, keep |-> FALSE, face |-> <<>>]
        ELSE [ok |-> TRUE, keep |-> Len(toks) = 3, face |-> MapSeq(IntVal, toks)]

TokRat(t) == ToRat(FloatVal(t))

\* pid = int(point_tag["id"]); point_list = [float(x) for x in
\* point_tag.text.split()]; stored when len == 3; KeyError and ValueError
\* become the "Invalid point entry" error.
PointEntryAtLeast3(el) ==
    LET toks == SplitWS(el.text)
    IN  IF ~el.id.has \/ ~IsIntTok(el.id.val) \/ (\E k \in 1..Len(toks) : ~IsFloatTok(toks[k]))
        THEN [ok |-> FALSE, store |-> FALSE, pid |-> 0, v |-> <<>>]
        ELSE [ok |-> TRUE, store |-> Len(toks) >= 3, pid |-> IntVal(el.id.val),
              v |-> MapSeq(TokRat, IF Len(toks) >= 3 THEN SubSeq(toks, 1, 3) ELSE toks)]
PointEntry(el) ==
    LET toks == SplitWS(el.text)
    IN  IF ~el.id.has \/ ~IsIntTok(el.id.val) \/ (\E k \in 1..Len(toks) : ~IsFloatTok(toks[k]))
        THEN [ok |-> FALSE, store |-> FALSE, pid |-> 0, v |-> <<>>]
        ELSE [ok |-> TRUE, store |-> Len(toks) = 3, pid |-> IntVal(el.id.val),
              v |-> MapSeq(TokRat, toks)]

\* One iteration of "for face in xml_soup.find_all('F')"; int() raises its
\* own ValueError, which nothing catches.
ExtractFaceStep ==
    /\ xpc = "faces"
    /\ xi <= Len(FindAll(xml, "F"))
    /\ LET k == FindAll(xml, "F")[xi]
           r == FaceEntry(xml[k])
       IN  IF r.ok
           THEN /\ faces' = IF r.keep THEN Append(faces, r.face) ELSE faces
                /\ xi' = xi + 1
                /\ UNCHANGED <<xpc, raised>>
           ELSE /\ xpc' = "raised"
                /\ raised' = [kind |-> "ValueError", at |-> k]
                /\ UNCHANGED <<faces, xi>>
    /\ UNCHANGED <<xml, points, total_weighted_centroid, total_area, result>>
    /\ UNCHANGED scalerVars

ExtractFacesDone ==
    /\ xpc = "faces"
    /\ xi > Len(FindAll(xml, "F"))
    /\ xpc' = "points" /\ xi' = 1
    /\ UNCHANGED <<xml, points, faces, total_weighted_centroid, total_area, result, raised>>
    /\ UNCHANGED scalerVars

\* One iteration of "for point_tag in xml_soup.find_all('P')".
ExtractPointStep ==
    /\ xpc = "points"
    /\ xi <= Len(FindAll(xml, "P"))
    /\ LET k == FindAll(xml, "P")[xi]
           r == PointEntry(xml[k])
       IN  IF r.ok
           THEN /\ points' = IF r.store THEN (r.pid :> r.v) @@ points ELSE points
                /\ xi' = xi + 1
                /\ UNCHANGED <<xpc, raised>>
           ELSE /\ xpc' = "raised"
                /\ raised' = [kind |-> "InvalidPoint", at |-> k]
                /\ UNCHANGED <<points, xi>>
    /\ UNCHANGED <<xml, faces, total_weighted_centroid, total_area, result>>
    /\ UNCHANGED scalerVars

\* return points, faces
ExtractReturn ==
    /\ xpc = "points"
    /\ xi > Len(FindAll(xml, "P"))
    /\ xpc' = "returned"
    /\ UNCHANGED <<xml, xi, points, faces, total_weighted_centroid, total_area,
                   result, raised>>
    /\ UNCHANGED scalerVars

NextExtract ==
    \/ ExtractFaceStep \/ ExtractFacesDone \/ ExtractPointStep \/ ExtractReturn
    \/ CallCentroid \/ CentroidStep \/ CentroidReturn

\* ---- input documents of the Extractor ----
MaxFaceElems == 2

XP1A == <<"0", " ", "0", " ", "0">>
XP1B == <<"\n", "1", ".", "0", "\t", "0", " ", "-", "0", ".", "\n">>
XP2A == <<"0", " ", "4", " ", "0">>
XP3A == <<"0", " ", "1", ".", "5", " ", "0">>
XP3B == <<"0", " ", " ", "+", "0", " ", "3">>
XPTwo == <<"1", " ", "2">>
XPFour == <<"1", " ", "2", " ", "3", " ", "4">>
XPBad == <<"1", " ", "x", " ", "3">>
XF123 == <<"1", " ", "2", " ", "3">>
XF312 == <<"\n", "3", "\t", "1", " ", " ", "2", "\n">>
XFTwo == <<"1", " ", "2">>
XFFour == <<"1", " ", "2", " ", "3", " ", "4">>
XFBad == <<"1", " ", "x", " ", "3">>

XP(id, text) == Elem("P", id, text, 0)

\* The first, second and third P element of a document.
PSlot(n) ==
    CASE n = 1 -> {XP(Attr(<<"1">>), XP1A), XP(Attr(<<"1">>), XP1B),
                   XP(Attr(<<"1">>), XPTwo), XP(NoAttr, XP1A)}
      [] n = 2 -> {XP(Attr(<<"2">>), XP2A), XP(Attr(<<"2">>), XPFour),
                   XP(Attr(<<"2">>), XPBad), XP(Attr(<<"2", ".", "0">>), XP2A)}
      [] n = 3 -> {XP(Attr(<<" ", "3">>), XP3A), XP(Attr(<<"3">>), XP3B),
                   XP(Attr(<<"3">>), <<>>), XP(Attr(<<"1">>), XP3B)}

PSeqs == UNION {{s \in [1..n -> UNION {PSlot(j) : j \in 1..3}] :
                    \A j \in 1..n : s[j] \in PSlot(j)} : n \in 0..3}

XFTexts == {<<>>, XF123, XF312, XFTwo, XFFour, XFBad}

FSeqs == UNION {[1..n -> {Elem("F", NoAttr, t, 0) : t \in XFTexts}] : n \in 0..MaxFaceElems}

InitExtract ==
    /\ \E ps \in PSeqs, fs \in FSeqs : xml = ps \o fs
    /\ xpc = "faces" /\ xi = 1
    /\ points = <<>> /\ faces = <<>>
    /\ total_weighted_centroid = <<>> /\ total_area = <<>>
    /\ result = Unset /\ raised = NoErr
    /\ ScalerIdle

SpecExtract == InitExtract /\ [][NextExtract]_vars

---------------------------------------------------------------------------
(* Properties of the Extractor                                             *)

\* parse_tin_geometry has returned normally.
Returned ==
    \/ xpc \in {"returned", "centroid", "done"}
    \/ (xpc = "raised" /\ raised.kind = "DanglingReference")

\* The face loop has completed.
FacesRead == xpc = "points" \/ Returned \/ (xpc = "raised" /\ raised.kind = "InvalidPoint")

ValidId(el) == el.id.has /\ IsIntTok(el.id.val)
FloatsOnly(el) == AllFloats(SplitWS(el.text))
ThreeFloats(el) == Len(SplitWS(el.text)) = 3 /\ FloatsOnly(el)
IntsOnly(el) == AllInts(SplitWS(el.text))

IsPoint(el) == el.tag = "P" /\ ValidId(el) /\ ThreeFloats(el)

\* The point mapping a document stands for: the ids of its P elements
\* holding exactly three floats, each with the coordinates of the last such
\* element carrying it.
PointMapOf(d) ==
    LET ids == {IntVal(d[k].id.val) : k \in {j \in 1..Len(d) : IsPoint(d[j])}}
        last(p) == CHOOSE k \in 1..Len(d) :
                      /\ IsPoint(d[k]) /\ IntVal(d[k].id.val) = p
                      /\ \A j \in (k + 1)..Len(d) :
                            ~(IsPoint(d[j]) /\ IntVal(d[j].id.val) = p)
    IN  [p \in ids |-> MapSeq(TokRat, SplitWS(d[last(p)].text))]

\* C2 (as claimed): whenever the call returns normally, every P element has
\* an integer id and exactly 3 floats and is in the mapping under its id.
C2_AsClaimed ==
    Returned =>
        \A k \in 1..Len(xml) :
            xml[k].tag = "P" =>
                /\ ValidId(xml[k]) /\ ThreeFloats(xml[k])
                /\ IntVal(xml[k].id.val) \in DOMAIN points

\* C2 (amended): InvalidPoint is raised for the first P element whose id is
\* missing or not an integer or whose text has a token that is not a float,
\* and only when every F token is an integer (otherwise int()'s own
\* ValueError is raised for that F element); a P element with a number of
\* floats other than 3 raises nothing and is left out.  Whenever the call
\* returns normally, the mapping holds exactly the P elements with three
\* floats, each under its id.
C2_Amended ==
    /\ (xpc = "raised" /\ raised.kind = "InvalidPoint") =>
            /\ xml[raised.at].tag = "P"
            /\ (~ValidId(xml[raised.at]) \/ ~FloatsOnly(xml[raised.at]))
            /\ \A j \in 1..(raised.at - 1) :
                  xml[j].tag = "P" => (ValidId(xml[j]) /\ FloatsOnly(xml[j]))
            /\ \A j \in 1..Len(xml) : xml[j].tag = "F" => IntsOnly(xml[j])
    /\ (xpc = "raised" /\ raised.kind = "ValueError") =>
            (xml[raised.at].tag = "F" /\ ~IntsOnly(xml[raised.at]))
    /\ Returned =>
            /\ \A k \in 1..Len(xml) :
                  xml[k].tag = "P" => (ValidId(xml[k]) /\ FloatsOnly(xml[k]))
            /\ points = PointMapOf(xml)

\* The call has returned with one P element in the mapping and another,
\* holding 2 or 4 floats under an integer id, left out.
C2_Witness ==
    /\ xpc = "returned"
    /\ DOMAIN points # {}
    /\ \E k \in 1..Len(xml) :
          /\ xml[k].tag = "P" /\ ValidId(xml[k]) /\ FloatsOnly(xml[k])
          /\ Len(SplitWS(xml[k].text)) \in {2, 4}
          /\ IntVal(xml[k].id.val) \notin DOMAIN points

\* The faces a document stands for: in document order, the integer triples
\* of its F elements holding exactly three integers.
RECURSIVE TriFaces(_)
TriFaces(d) ==
    IF d = <<>> THEN <<>>
    ELSE (IF d[1].tag = "F" /\ IntsOnly(d[1]) /\ Len(SplitWS(d[1].text)) = 3
          THEN <<MapSeq(IntVal, SplitWS(d[1].text))>>
          ELSE <<>>) \o TriFaces(Tail(d))

RemoveAt(d, k) == SubSeq(d, 1, k - 1) \o SubSeq(d, k + 1, Len(d))

\* What the Centroid Calculator is to give for a mapping and a face list.
Outcome(pts, fs) ==
    IF \E k \in 1..Len(fs) : Dangling(pts, fs[k]) THEN [kind |-> "DanglingReference", v |-> <<>>]
    ELSE IF RPos(SumArea(pts, fs)) THEN Vector(WeightedAverage(pts, fs))
    ELSE None

\* An F element of integer tokens whose number is not 3.
OtherArity(el) == el.tag = "F" /\ IntsOnly(el) /\ Len(SplitWS(el.text)) # 3

\* C5: once the face loop is over, the face list is, in document order,
\* exactly the F elements holding 3 integers; an F element with another
\* number of integers raises nothing (the only error of the face loop is a
\* token that is no integer), and the face list, and the centroid computed
\* from the returned pair, are those of the document without that element.
C5_FaceArity ==
    /\ FacesRead => faces = TriFaces(xml)
    /\ (xpc = "raised" /\ raised.kind = "ValueError") => ~IntsOnly(xml[raised.at])
    /\ \A k \in 1..Len(xml) :
          OtherArity(xml[k]) =>
              /\ FacesRead => faces = TriFaces(RemoveAt(xml, k))
              /\ xpc = "done" =>
                    result = Outcome(PointMapOf(RemoveAt(xml, k)), TriFaces(RemoveAt(xml, k)))
              /\ (xpc = "raised" /\ raised.kind = "DanglingReference") =>
                    Outcome(PointMapOf(RemoveAt(xml, k)), TriFaces(RemoveAt(xml, k))).kind
                        = "DanglingReference"

\* A centroid has been returned for a document holding an F element of 4
\* integers.
C5_Witness ==
    /\ xpc = "done" /\ result.kind = "vector"
    /\ \E k \in 1..Len(xml) : OtherArity(xml[k]) /\ Len(SplitWS(xml[k].text)) = 4

====
